---- MODULE Spec2Model ----
(***************************************************************************)
(* A model of src/tools/segment_frames.py: the subtitle-frame segmenter,  *)
(* segment_frames, and the command main that calls it and saves its        *)
(* result.                                                                 *)
(*                                                                         *)
(* A frames directory maps file names to decoded pixel arrays.  A file     *)
(* name is a sequence of one-character strings, so that the regular        *)
(* expression of segment_frames, int() and the two sorts are modelled by   *)
(* what they do to the characters.  A pixel array is a sequence of pixels, *)
(* each pixel a sequence of channel values in 0..255 (one channel for a    *)
(* grayscale image).  The real-valued measures (standard deviation, mean   *)
(* absolute difference) are compared with the thresholds exactly, by       *)
(* cross-multiplying the integer numerators and denominators.              *)
(***************************************************************************)
EXTENDS Integers, Sequences, FiniteSets, TLC

VARIABLES
    dir,                  \* frames_dir: file name -> pixel array
    video_id,             \* argument video_id
    diff_threshold,       \* argument diff_threshold
    blank_threshold,      \* argument blank_threshold
    min_segment_duration, \* argument min_segment_duration
    pc,                   \* position in segment_frames
    frame_files,          \* local frame_files: sequence of <<frame_num, filename>>
    i,                    \* index (1-based) of the next frame of the for loop
    segments,             \* local segments
    current_segment,      \* local current_segment: <<>> is None, <<seg>> a segment
    prev_img,             \* local prev_img: <<>> is None, <<img>> an array
    filtered_segments,    \* local filtered_segments, the returned list
    main_pc,              \* position in main
    argv,                 \* the option values of the command line, unparsed
    dir_exists,           \* args.frames_dir.exists()
    corrupt,              \* the files of frames_dir that do not decode
    loaded,               \* the file names given to load_image_as_array so far
    output_dir,           \* args.output_dir: whether it exists, and its files
    exception             \* the exception that left segment_frames, or "none"

vars == <<dir, video_id, diff_threshold, blank_threshold, min_segment_duration,
          pc, frame_files, i, segments, current_segment, prev_img,
          filtered_segments, main_pc, argv, dir_exists, corrupt, loaded,
          output_dir, exception>>

params == <<dir, video_id, diff_threshold, blank_threshold, min_segment_duration>>

\* what main reads and never changes, and its position while segment_frames runs
env == <<main_pc, argv, dir_exists, corrupt, output_dir, exception>>

(***************************************************************************)
(* Bounds of the model.                                                    *)
(***************************************************************************)
\* frame numbers of the enumerated directories range over 1..MaxFrameNum
MaxFrameNum == 3
\* directories of at most MaxShuffled files are listed in every order;
\* larger ones in ascending and descending name order
MaxShuffled == 3

(***************************************************************************)
(* Program constants.                                                      *)
(***************************************************************************)
DefaultDiffThreshold == 15
DefaultBlankThreshold == 30
DefaultMinSegmentDuration == 1
\* number of digits the file name pattern asks for
FrameNumDigits == 4

(***************************************************************************)
(* Characters and file names.                                              *)
(***************************************************************************)
\* the characters that occur in the modelled file names, in code point order
CharOrder == <<"-", ".", "0", "1", "2", "3", "4", "5", "6", "7", "8", "9",
               "_", "g", "j", "n", "p">>

Ord(c) == CHOOSE k \in 1..Len(CharOrder) : CharOrder[k] = c

DigitChars == <<"0", "1", "2", "3", "4", "5", "6", "7", "8", "9">>

IsDigit(c) == \E k \in 1..Len(DigitChars) : DigitChars[k] = c

DigitVal(c) == (CHOOSE k \in 1..Len(DigitChars) : DigitChars[k] = c) - 1

\* Python's str "<": lexicographic by code point, a proper prefix is smaller
RECURSIVE StrLess(_, _)
StrLess(a, b) ==
    IF b = <<>> THEN FALSE
    ELSE IF a = <<>> THEN TRUE
    ELSE IF Head(a) # Head(b) THEN Ord(Head(a)) < Ord(Head(b))
    ELSE StrLess(Tail(a), Tail(b))

\* int() of a string of decimal digits
RECURSIVE ParseInt(_)
ParseInt(digits) ==
    IF digits = <<>> THEN 0
    ELSE 10 * ParseInt(SubSeq(digits, 1, Len(digits) - 1))
         + DigitVal(digits[Len(digits)])

JpgSuffix == <<".", "j", "p", "g">>

\* pattern.match(filename) for pattern ^{re.escape(video_id)}_(\d{4})\.jpg$
PatternMatches(vid, filename) ==
    /\ Len(filename) = Len(vid) + 1 + FrameNumDigits + Len(JpgSuffix)
    /\ SubSeq(filename, 1, Len(vid)) = vid
    /\ filename[Len(vid) + 1] = "_"
    /\ \A k \in 1..FrameNumDigits : IsDigit(filename[Len(vid) + 1 + k])
    /\ SubSeq(filename, Len(vid) + FrameNumDigits + 2, Len(filename)) = JpgSuffix

\* match.group(1)
MatchGroup1(vid, filename) ==
    SubSeq(filename, Len(vid) + 2, Len(vid) + 1 + FrameNumDigits)

\* the {frame_num:04d} of the naming convention
FormatFrameNum(n) ==
    <<DigitChars[((n \div 1000) % 10) + 1], DigitChars[((n \div 100) % 10) + 1],
      DigitChars[((n \div 10) % 10) + 1], DigitChars[(n % 10) + 1]>>

\* {video_id}_{frame_num:04d}.jpg
FrameFileName(vid, n) == vid \o <<"_">> \o FormatFrameNum(n) \o JpgSuffix

(***************************************************************************)
(* Pixel arrays, the blank test and the frame difference.                  *)
(***************************************************************************)
RECURSIVE SumSeq(_)
SumSeq(s) == IF s = <<>> THEN 0 ELSE Head(s) + SumSeq(Tail(s))

Abs(x) == IF x < 0 THEN -x ELSE x

NumChannels(img) == Len(img[1])

\* load_image_as_array: the decoded content of the file
load_image_as_array(d, filename) == d[filename]

\* The numerator of the variance of the luminance, over the denominator
\* (Len(img) * NumChannels(img))^2: with g[p] the channel sum of pixel p,
\* N * sum(g[p]^2) - (sum g[p])^2.
LumaVarianceNum(img) ==
    LET g == [p \in 1..Len(img) |-> SumSeq(img[p])]
        sq == [p \in 1..Len(img) |-> g[p] * g[p]]
    IN  Len(img) * SumSeq(sq) - SumSeq(g) * SumSeq(g)

\* is_blank_frame: np.std(gray) < blank_threshold
is_blank_frame(img, bt) ==
    LET den == Len(img) * NumChannels(img)
    IN  bt > 0 /\ LumaVarianceNum(img) < bt * bt * den * den

\* the sum of |img1 - img2| over all pixels and channels
AbsDiffSum(img1, img2) ==
    SumSeq([p \in 1..Len(img1) |->
              SumSeq([c \in 1..NumChannels(img1) |-> Abs(img1[p][c] - img2[p][c])])])

\* the variant with "<=" for "<"
FrameDifferenceAtMost(img1, img2, t) ==
    AbsDiffSum(img1, img2) <= t * Len(img1) * NumChannels(img1)

\* the variant with the comparison turned round
FrameDifferenceAbove(img1, img2, t) ==
    AbsDiffSum(img1, img2) > t * Len(img1) * NumChannels(img1)

\* calculate_frame_difference(img1, img2) < t, the mean being
\* AbsDiffSum / (pixels * channels)
FrameDifferenceBelow(img1, img2, t) ==
    AbsDiffSum(img1, img2) < t * Len(img1) * NumChannels(img1)

(***************************************************************************)
(* Listing the frames of a video.                                          *)
(***************************************************************************)
\* every order of the elements of S, as sequences
RECURSIVE Orders(_)
Orders(S) ==
    IF S = {} THEN {<<>>}
    ELSE UNION {{<<x>> \o t : t \in Orders(S \ {x})} : x \in S}

\* the ascending order of S by name
RECURSIVE Ascending(_)
Ascending(S) ==
    IF S = {} THEN <<>>
    ELSE LET m == CHOOSE x \in S : \A y \in S \ {x} : StrLess(x, y)
         IN  <<m>> \o Ascending(S \ {m})

Reverse(s) == [k \in 1..Len(s) |-> s[Len(s) + 1 - k]]

\* os.listdir(frames_dir): the names in an arbitrary order
ListDir(d) ==
    IF Cardinality(DOMAIN d) <= MaxShuffled
    THEN Orders(DOMAIN d)
    ELSE {Ascending(DOMAIN d), Reverse(Ascending(DOMAIN d))}

\* Python's "<" of (frame_num, filename) tuples
TupleLess(a, b) == a[1] < b[1] \/ (a[1] = b[1] /\ StrLess(a[2], b[2]))

\* the matching names of a listing with their frame numbers, in listing order
MatchedFrames(listing, vid) ==
    LET matched == SelectSeq(listing, LAMBDA f : PatternMatches(vid, f))
    IN  [k \in 1..Len(matched) |->
            <<ParseInt(MatchGroup1(vid, matched[k])), matched[k]>>]

\* the variant that keeps the frames in the order the directory lists them
ListFrameFilesUnsorted(listing, vid) == MatchedFrames(listing, vid)

\* frame_files after "frame_files.sort()": the frames of the video, found
\* in sorted(os.listdir(frames_dir)), ascending by (frame_num, filename)
ListFrameFiles(listing, vid) ==
    SortSeq(MatchedFrames(SortSeq(listing, StrLess), vid), TupleLess)

(***************************************************************************)
(* The forward pass.  The loop state is the record of the three locals     *)
(* segments, current_segment and prev_img.                                 *)
(***************************************************************************)
NoSegment == <<>>
NoImage == <<>>

LoopInit == [segments |-> <<>>, current_segment |-> NoSegment, prev_img |-> NoImage]

\* the variant that takes the frame number as the time
TimestampOneBased(frame_num) == frame_num

\* timestamp = frame_num - 1
Timestamp(frame_num) == frame_num - 1

\* the variant in which a blank frame is skipped without any effect
OnBlankFrameSkipped(st, img) == st

\* the variant that forgets "current_segment = None"
OnBlankFrameNoReset(st, img) ==
    [segments |-> IF st.current_segment # NoSegment
                  THEN Append(st.segments, st.current_segment[1])
                  ELSE st.segments,
     current_segment |-> st.current_segment,
     prev_img |-> <<img>>]

\* the variant that forgets "segments.append(current_segment)"
OnBlankFrameNoAppend(st, img) ==
    [segments |-> st.segments, current_segment |-> NoSegment, prev_img |-> <<img>>]

\* the "if is_blank:" branch
OnBlankFrame(st, img) ==
    [segments |-> IF st.current_segment # NoSegment
                  THEN Append(st.segments, st.current_segment[1])
                  ELSE st.segments,
     current_segment |-> NoSegment,
     prev_img |-> <<img>>]

\* is_same_subtitle
IsSameSubtitle(st, img, dt, bt) ==
    IF st.prev_img # NoImage /\ ~is_blank_frame(st.prev_img[1], bt)
    THEN FrameDifferenceBelow(st.prev_img[1], img, dt)
    ELSE FALSE

\* the dictionary of a segment that opens at a frame
NewSegment(vid, id, frame_num, filename) ==
    [video_id |-> vid,
     segment_id |-> id,
     start_time |-> Timestamp(frame_num),
     end_time |-> Timestamp(frame_num),
     start_frame |-> frame_num,
     end_frame |-> frame_num,
     frame_count |-> 1,
     representative_frame |-> filename]

\* the variant that numbers the new segment before the open one is appended
OnNewSubtitleEarlyId(st, vid, frame_num, filename, img) ==
    LET segs == IF st.current_segment # NoSegment
                THEN Append(st.segments, st.current_segment[1])
                ELSE st.segments
    IN  [segments |-> segs,
         current_segment |->
             <<NewSegment(vid, Len(st.segments) + 1, frame_num, filename)>>,
         prev_img |-> <<img>>]

\* the "if not is_same_subtitle:" branch
OnNewSubtitle(st, vid, frame_num, filename, img) ==
    LET segs == IF st.current_segment # NoSegment
                THEN Append(st.segments, st.current_segment[1])
                ELSE st.segments
    IN  [segments |-> segs,
         current_segment |-> <<NewSegment(vid, Len(segs) + 1, frame_num, filename)>>,
         prev_img |-> <<img>>]

\* the variant that takes frame_count from the frame numbers
OnSameSubtitleCountBySpan(st, frame_num, img) ==
    [segments |-> st.segments,
     current_segment |->
         <<[st.current_segment[1] EXCEPT
               !.end_time = frame_num - 1,
               !.end_frame = frame_num,
               !.frame_count = frame_num - st.current_segment[1].start_frame + 1]>>,
     prev_img |-> <<img>>]

\* the variant that forgets "prev_img = curr_img" when the segment is
\* extended, so that frames are compared with the first frame of the segment
OnSameSubtitleKeepPrev(st, frame_num, img) ==
    [segments |-> st.segments,
     current_segment |->
         <<[st.current_segment[1] EXCEPT !.end_time = frame_num - 1,
                                         !.end_frame = frame_num,
                                         !.frame_count = @ + 1]>>,
     prev_img |-> st.prev_img]

\* the variant that also moves the start of the segment to the frame
OnSameSubtitleRestart(st, frame_num, img) ==
    [segments |-> st.segments,
     current_segment |->
         <<[st.current_segment[1] EXCEPT !.start_time = frame_num - 1,
                                         !.start_frame = frame_num,
                                         !.end_time = frame_num - 1,
                                         !.end_frame = frame_num,
                                         !.frame_count = @ + 1]>>,
     prev_img |-> <<img>>]

\* the variant that forgets "current_segment['frame_count'] += 1"
OnSameSubtitleNoCount(st, frame_num, img) ==
    [segments |-> st.segments,
     current_segment |->
         <<[st.current_segment[1] EXCEPT !.end_time = frame_num - 1,
                                         !.end_frame = frame_num]>>,
     prev_img |-> <<img>>]

\* the "else:" branch, "Continue current segment"
OnSameSubtitle(st, frame_num, img) ==
    [segments |-> st.segments,
     current_segment |->
         <<[st.current_segment[1] EXCEPT !.end_time = Timestamp(frame_num),
                                         !.end_frame = frame_num,
                                         !.frame_count = @ + 1]>>,
     prev_img |-> <<img>>]

\* the variant without the "if is_blank:" branch
FrameBranchNoBlank(st, img, dt, bt) ==
    IF ~IsSameSubtitle(st, img, dt, bt) THEN "new" ELSE "same"

\* the branch an iteration of the for loop takes
FrameBranch(st, img, dt, bt) ==
    IF is_blank_frame(img, bt) THEN "blank"
    ELSE IF ~IsSameSubtitle(st, img, dt, bt) THEN "new"
    ELSE "same"

\* one iteration of the for loop
ProcessFrame(st, d, vid, frame, dt, bt) ==
    LET img == load_image_as_array(d, frame[2])
        branch == FrameBranch(st, img, dt, bt)
    IN  IF branch = "blank" THEN OnBlankFrame(st, img)
        ELSE IF branch = "new"
             THEN OnNewSubtitle(st, vid, frame[1], frame[2], img)
             ELSE OnSameSubtitle(st, frame[1], img)

\* the variant that forgets the last segment
AppendLastForgotten(st) == st.segments

\* "Don't forget the last segment"
AppendLast(st) ==
    IF st.current_segment # NoSegment
    THEN Append(st.segments, st.current_segment[1])
    ELSE st.segments

\* the variant that forgets the "+ 1"
SegmentDurationExclusive(seg) == seg.end_time - seg.start_time

\* the duration the filter tests: end_time - start_time + 1
SegmentDuration(seg) == seg.end_time - seg.start_time + 1

\* the list comprehension filtered_segments
FilterSegments(segs, md) ==
    SelectSeq(segs, LAMBDA seg : SegmentDuration(seg) >= md)

\* the loop state after the first k frames
RECURSIVE ForwardPass(_, _, _, _, _, _)
ForwardPass(frames, k, d, vid, dt, bt) ==
    IF k = 0 THEN LoopInit
    ELSE ProcessFrame(ForwardPass(frames, k - 1, d, vid, dt, bt),
                      d, vid, frames[k], dt, bt)

\* the raw segments of a run over a list of frames
RawSegmentsOf(frames, d, vid, dt, bt) ==
    AppendLast(ForwardPass(frames, Len(frames), d, vid, dt, bt))

\* the list segment_frames returns once it has found a list of frames
SegmentFramesOf(frames, d, vid, dt, bt, md) ==
    FilterSegments(RawSegmentsOf(frames, d, vid, dt, bt), md)

(***************************************************************************)
(* The inputs: frame directories, video identifiers and settings.          *)
(***************************************************************************)
Vid01 == <<"0", "-", "1">>
Vid02 == <<"0", "-", "2">>
VideoIds == {Vid01, Vid02}

\* Two-pixel grayscale arrays.  Standard deviations: ImgA 30, ImgB 35,
\* ImgC 45, ImgD 25, ImgK 0.  Mean differences: A-B 5, B-C 10, A-C 15,
\* D-A 5, D-B 10, D-C 20, and 30 or more between ImgK and the others.
ImgA == << <<0>>, <<60>> >>
ImgB == << <<0>>, <<70>> >>
ImgC == << <<0>>, <<90>> >>
ImgD == << <<0>>, <<50>> >>
ImgK == << <<50>>, <<50>> >>
\* the arrays of the enumerated directories; ImgK occurs in the scenes
Images == {ImgA, ImgB, ImgC, ImgD}

DiffThresholds == {5, 10, DefaultDiffThreshold}
BlankThresholds == {DefaultBlankThreshold, 40}
MinDurations == {0, DefaultMinSegmentDuration, 2}

\* the directories that hold any frames of video 0-1 numbered 1..MaxFrameNum
FrameDirs ==
    UNION {[{FrameFileName(Vid01, n) : n \in S} -> Images] :
              S \in SUBSET (1..MaxFrameNum)}

\* other files of a directory: two frames of video 0-2, a name with three
\* digits and a name with another extension
OtherFiles ==
    (FrameFileName(Vid02, 1) :> ImgA) @@ (FrameFileName(Vid02, 2) :> ImgD)
    @@ ((Vid01 \o <<"_", "0", "0", "2">> \o JpgSuffix) :> ImgC)
    @@ ((Vid01 \o <<"_", "0", "0", "0", "3", ".", "p", "n", "g">>) :> ImgC)

\* spec.md section 8: frames 0001..0005 with pairwise difference 5, frame
\* 0006 blank, frame 0007 content
SceneBlankBoundary(last) ==
    [f \in {FrameFileName(Vid01, n) : n \in 1..7} |->
        LET n == ParseInt(MatchGroup1(Vid01, f))
        IN  IF n = 6 THEN ImgK
            ELSE IF n = 7 THEN last
            ELSE IF n % 2 = 1 THEN ImgA ELSE ImgB]

\* spec.md section 8: a segment that spans only start_time = 10, between
\* two longer ones, with frame numbers missing
SceneShortSegment ==
    [f \in {FrameFileName(Vid01, n) : n \in {8, 9, 11, 13, 15}} |->
        LET n == ParseInt(MatchGroup1(Vid01, f))
        IN  IF n = 11 THEN ImgC ELSE ImgA]

SceneDirs == {SceneBlankBoundary(ImgA), SceneBlankBoundary(ImgB), SceneShortSegment}

\* directories that hold other files besides at most one frame of video 0-1
MixedDirs == {f @@ OtherFiles : f \in {g \in FrameDirs : Cardinality(DOMAIN g) <= 1}}

Dirs == FrameDirs \cup MixedDirs \cup SceneDirs

(***************************************************************************)
(* The command line, the output directory and the files that fail to load. *)
(***************************************************************************)
\* an option value as typed: text that float() or int() accepts, or not
NumArg(v) == [numeric |-> TRUE, value |-> v]
JunkArg == [numeric |-> FALSE, value |-> 0]

Argv(d, b, m) == [diff_threshold |-> d, blank_threshold |-> b, min_duration |-> m]

\* the command line without options: argparse's defaults
DefaultArgv ==
    Argv(NumArg(DefaultDiffThreshold), NumArg(DefaultBlankThreshold),
         NumArg(DefaultMinSegmentDuration))

MainArgvs ==
    {Argv(NumArg(d), NumArg(b), NumArg(m)) :
        d \in DiffThresholds, b \in BlankThresholds, m \in MinDurations}

\* command lines with one option that is no number
JunkArgvs ==
    {[DefaultArgv EXCEPT !.diff_threshold = JunkArg],
     [DefaultArgv EXCEPT !.blank_threshold = JunkArg],
     [DefaultArgv EXCEPT !.min_duration = JunkArg]}

\* command lines with one option outside 0..255, or a negative duration
OutOfRangeArgvs ==
    {[DefaultArgv EXCEPT !.diff_threshold = NumArg(-5)],
     [DefaultArgv EXCEPT !.diff_threshold = NumArg(300)],
     [DefaultArgv EXCEPT !.blank_threshold = NumArg(-1)],
     [DefaultArgv EXCEPT !.blank_threshold = NumArg(300)],
     [DefaultArgv EXCEPT !.min_duration = NumArg(-1)]}

\* argparse's type=float and type=int accept every option
ArgsParse(args) ==
    /\ args.diff_threshold.numeric
    /\ args.blank_threshold.numeric
    /\ args.min_duration.numeric

\* the variant that writes every video to one file, segments.json
OutputFileNameShared(vid) == <<"s", "e", "g", "m", "e", "n", "t", "s", ".", "j", "s", "o", "n">>

\* {video_id}_segments.json
OutputFileName(vid) ==
    vid \o <<"_", "s", "e", "g", "m", "e", "n", "t", "s", ".", "j", "s", "o", "n">>

\* a file of the output directory: whether this run wrote it, and the JSON
\* documents it holds
StaleFile == [from_this_run |-> FALSE, text |-> <<>>]
OpenedFile == [from_this_run |-> TRUE, text |-> <<>>]

\* json.dump(segments, f, ...): one document, the list of the dictionaries
JsonDump(segs) == [from_this_run |-> TRUE, text |-> <<segs>>]

NoOutputDir == [exists |-> FALSE, files |-> <<>>]
EmptyOutputDir == [exists |-> TRUE, files |-> <<>>]
StaleOutputDir(vid) == [exists |-> TRUE, files |-> (OutputFileName(vid) :> StaleFile)]

\* directories with at most one frame of video 0-1, and one scene
SmallDirs ==
    {g \in FrameDirs : Cardinality(DOMAIN g) <= 1} \cup {SceneBlankBoundary(ImgA)}

\* directories in which one file is tried that does not decode
DirsWithCorruptFile ==
    {g \in FrameDirs : \A f \in DOMAIN g : g[f] \in {ImgA, ImgD}}
    \cup {SceneBlankBoundary(ImgA), SceneShortSegment}

InitLocals ==
    /\ diff_threshold = DefaultDiffThreshold
    /\ blank_threshold = DefaultBlankThreshold
    /\ min_segment_duration = DefaultMinSegmentDuration
    /\ pc = "start"
    /\ frame_files = <<>>
    /\ i = 1
    /\ segments = <<>>
    /\ current_segment = NoSegment
    /\ prev_img = NoImage
    /\ filtered_segments = <<>>
    /\ main_pc = "start"
    /\ loaded = <<>>
    /\ exception = "none"

\* runs over every directory with the valid settings; the runs for video
\* 0-2 are enumerated over the mixed directories
InitSettings ==
    /\ dir \in Dirs
    /\ video_id \in VideoIds
    /\ video_id = Vid02 => dir \in MixedDirs
    /\ argv \in MainArgvs
    /\ dir_exists = TRUE
    /\ corrupt = {}
    /\ output_dir = NoOutputDir

\* runs with options that are no numbers or out of range, and runs that
\* find an output directory or an output file of an earlier run
InitCommandLine ==
    /\ dir \in SmallDirs
    /\ video_id = Vid01
    /\ argv \in {DefaultArgv} \cup JunkArgvs \cup OutOfRangeArgvs
    /\ dir_exists = TRUE
    /\ corrupt = {}
    /\ output_dir \in {NoOutputDir, EmptyOutputDir, StaleOutputDir(video_id)}

\* runs for a frames directory that does not exist
InitMissingDir ==
    /\ dir = <<>>
    /\ video_id = Vid01
    /\ argv \in {DefaultArgv} \cup JunkArgvs
    /\ dir_exists = FALSE
    /\ corrupt = {}
    /\ output_dir \in {NoOutputDir, StaleOutputDir(video_id)}

\* runs in which one frame does not decode
InitCorruptFile ==
    /\ dir \in DirsWithCorruptFile
    /\ video_id = Vid01
    /\ argv = DefaultArgv
    /\ dir_exists = TRUE
    /\ \E f \in DOMAIN dir : corrupt = {f}
    /\ output_dir \in {NoOutputDir, StaleOutputDir(video_id)}

Init ==
    /\ InitSettings \/ InitCommandLine \/ InitMissingDir \/ InitCorruptFile
    /\ InitLocals

(***************************************************************************)
(* The steps of main before it calls segment_frames.                       *)
(***************************************************************************)
\* parser.parse_args() stores the options in args
ParsedArgs ==
    /\ diff_threshold' = argv.diff_threshold.value
    /\ blank_threshold' = argv.blank_threshold.value
    /\ min_segment_duration' = argv.min_duration.value

\* parse_args() rejects an option that float() or int() does not accept
ArgsRejected ==
    /\ main_pc = "start"
    /\ ~ArgsParse(argv)
    /\ main_pc' = "usage_error"
    /\ UNCHANGED <<params, pc, frame_files, i, segments, current_segment, prev_img,
                   filtered_segments, argv, dir_exists, corrupt, loaded,
                   output_dir, exception>>

\* "if not args.frames_dir.exists(): ... sys.exit(1)"
FramesDirMissing ==
    /\ main_pc = "start"
    /\ ArgsParse(argv)
    /\ ~dir_exists
    /\ ParsedArgs
    /\ main_pc' = "exit_1"
    /\ UNCHANGED <<dir, video_id, pc, frame_files, i, segments, current_segment,
                   prev_img, filtered_segments, argv, dir_exists, corrupt, loaded,
                   output_dir, exception>>

\* args.output_dir.mkdir(parents=True, exist_ok=True)
MkDir(od) == [od EXCEPT !.exists = TRUE]

\* the output directory is made and segment_frames is called
CallSegmentFrames ==
    /\ main_pc = "start"
    /\ ArgsParse(argv)
    /\ dir_exists
    /\ ParsedArgs
    /\ output_dir' = MkDir(output_dir)
    /\ main_pc' = "call"
    /\ UNCHANGED <<dir, video_id, pc, frame_files, i, segments, current_segment,
                   prev_img, filtered_segments, argv, dir_exists, corrupt, loaded,
                   exception>>

(***************************************************************************)
(* The steps of segment_frames.                                            *)
(***************************************************************************)
LoopState == [segments |-> segments, current_segment |-> current_segment,
              prev_img |-> prev_img]

SetLoopState(st) ==
    /\ segments' = st.segments
    /\ current_segment' = st.current_segment
    /\ prev_img' = st.prev_img

\* the variant without "if not frame_files: raise ..."
FramesFoundUnchecked(found) == TRUE

\* "if not frame_files:" does not raise
FramesFound(found) == found # <<>>

\* the frames are found and sorted; the loop starts
ListFrames ==
    /\ main_pc = "call"
    /\ pc = "start"
    /\ \E listing \in ListDir(dir) :
          LET found == ListFrameFiles(listing, video_id)
          IN  FramesFound(found) /\ frame_files' = found
    /\ pc' = "loop"
    /\ UNCHANGED <<params, i, segments, current_segment, prev_img,
                   filtered_segments, env, loaded>>

\* "if not frame_files: raise ValueError"; main does not catch it
NoFramesFound ==
    /\ main_pc = "call"
    /\ pc = "start"
    /\ \E listing \in ListDir(dir) : ~FramesFound(ListFrameFiles(listing, video_id))
    /\ pc' = "raised"
    /\ exception' = "ValueError"
    /\ main_pc' = "traceback"
    /\ UNCHANGED <<params, frame_files, i, segments, current_segment, prev_img,
                   filtered_segments, argv, dir_exists, corrupt, loaded, output_dir>>

InLoop == pc = "loop" /\ i <= Len(frame_files)

\* Image.open / np.array succeed on the file of the current frame
Decodes == frame_files[i][2] \notin corrupt

CurrImg == load_image_as_array(dir, frame_files[i][2])

Branch == FrameBranch(LoopState, CurrImg, diff_threshold, blank_threshold)

\* the variant that catches the error and goes on with the next frame
AfterLoadErrorSkip(k) ==
    [pc |-> "loop", i |-> k + 1, exception |-> "none", main_pc |-> "call"]

\* the error of load_image_as_array leaves the loop, segment_frames and main
AfterLoadError(k) ==
    [pc |-> "raised", i |-> k, exception |-> "OSError", main_pc |-> "traceback"]

\* an iteration on a frame that does not decode
LoadFails ==
    /\ InLoop
    /\ ~Decodes
    /\ loaded' = Append(loaded, frame_files[i][2])
    /\ pc' = AfterLoadError(i).pc
    /\ i' = AfterLoadError(i).i
    /\ exception' = AfterLoadError(i).exception
    /\ main_pc' = AfterLoadError(i).main_pc
    /\ UNCHANGED <<params, frame_files, segments, current_segment, prev_img,
                   filtered_segments, argv, dir_exists, corrupt, output_dir>>

\* an iteration on a blank frame
BlankFrame ==
    /\ InLoop
    /\ Decodes
    /\ Branch = "blank"
    /\ SetLoopState(OnBlankFrame(LoopState, CurrImg))
    /\ i' = i + 1
    /\ loaded' = Append(loaded, frame_files[i][2])
    /\ UNCHANGED <<params, pc, frame_files, filtered_segments, env>>

\* an iteration on a content frame that is not the same subtitle
NewSubtitleFrame ==
    /\ InLoop
    /\ Decodes
    /\ Branch = "new"
    /\ SetLoopState(OnNewSubtitle(LoopState, video_id, frame_files[i][1],
                                  frame_files[i][2], CurrImg))
    /\ i' = i + 1
    /\ loaded' = Append(loaded, frame_files[i][2])
    /\ UNCHANGED <<params, pc, frame_files, filtered_segments, env>>

\* an iteration on a content frame that is the same subtitle
SameSubtitleFrame ==
    /\ InLoop
    /\ Decodes
    /\ Branch = "same"
    /\ SetLoopState(OnSameSubtitle(LoopState, frame_files[i][1], CurrImg))
    /\ i' = i + 1
    /\ loaded' = Append(loaded, frame_files[i][2])
    /\ UNCHANGED <<params, pc, frame_files, filtered_segments, env>>

\* after the loop: the open segment is appended
LastSegment ==
    /\ pc = "loop"
    /\ i > Len(frame_files)
    /\ segments' = AppendLast(LoopState)
    /\ pc' = "filter"
    /\ UNCHANGED <<params, frame_files, i, current_segment, prev_img,
                   filtered_segments, env, loaded>>

\* the duration filter; the function returns filtered_segments
Filter ==
    /\ pc = "filter"
    /\ filtered_segments' = FilterSegments(segments, min_segment_duration)
    /\ pc' = "returned"
    /\ UNCHANGED <<params, frame_files, i, segments, current_segment, prev_img,
                   env, loaded>>

(***************************************************************************)
(* The steps of main after segment_frames: save_segments_json.             *)
(***************************************************************************)
\* the variant that saves in a "finally:" clause, whether or not
\* segment_frames returned
SaveReachedAlways ==
    \/ main_pc = "call" /\ pc = "returned"
    \/ main_pc = "traceback" /\ pc = "raised"

\* main reaches save_segments_json: segment_frames has returned
SaveReached == main_pc = "call" /\ pc = "returned"

\* open(output_path, 'w'): the file is created or truncated
OpenOutput ==
    /\ SaveReached
    /\ output_dir' = [output_dir EXCEPT
                         !.files = (OutputFileName(video_id) :> OpenedFile) @@ @]
    /\ main_pc' = "write"
    /\ UNCHANGED <<params, pc, frame_files, i, segments, current_segment, prev_img,
                   filtered_segments, argv, dir_exists, corrupt, loaded, exception>>

\* json.dump(segments, f, ...) and the end of main
WriteJson ==
    /\ main_pc = "write"
    /\ output_dir' = [output_dir EXCEPT
                         !.files = (OutputFileName(video_id) :> JsonDump(filtered_segments))
                                   @@ @]
    /\ main_pc' = "done"
    /\ UNCHANGED <<params, pc, frame_files, i, segments, current_segment, prev_img,
                   filtered_segments, argv, dir_exists, corrupt, loaded, exception>>

Next ==
    \/ ArgsRejected
    \/ FramesDirMissing
    \/ CallSegmentFrames
    \/ ListFrames
    \/ NoFramesFound
    \/ LoadFails
    \/ BlankFrame
    \/ NewSubtitleFrame
    \/ SameSubtitleFrame
    \/ LastSegment
    \/ Filter
    \/ OpenOutput
    \/ WriteJson

Spec == Init /\ [][Next]_vars

(***************************************************************************)
(* Two invocations of main at the same time, one for video 0-1 and one for *)
(* video 0-2, over one frames directory and one output directory.  In this *)
(* specification every variable of an invocation (the arguments, the       *)
(* locals, the position) holds one value per process; dir, dir_exists,     *)
(* corrupt and output_dir are the file system both processes see.          *)
(***************************************************************************)
Procs == {1, 2}

ParVideoIds == <<Vid01, Vid02>>

\* the frames of video 0-2 in the shared directory: none; two frames and
\* two other names; two frames with a gap
ParOtherVideo ==
    {<<>>,
     OtherFiles,
     (FrameFileName(Vid02, 1) :> ImgC) @@ (FrameFileName(Vid02, 3) :> ImgA)}

\* the frames 0001 and 0002 of video 0-1, or one of them, or none, together
\* with the files of video 0-2
ParDirs ==
    {f @@ g : f \in {h \in FrameDirs :
                        DOMAIN h \subseteq {FrameFileName(Vid01, n) : n \in 1..2}},
              g \in ParOtherVideo}

InitPar ==
    /\ dir \in ParDirs
    /\ video_id = ParVideoIds
    /\ diff_threshold = [w \in Procs |-> DefaultDiffThreshold]
    /\ blank_threshold = [w \in Procs |-> DefaultBlankThreshold]
    /\ min_segment_duration \in [Procs -> {DefaultMinSegmentDuration, 2}]
    /\ argv = [w \in Procs |-> DefaultArgv]
    /\ dir_exists = TRUE
    /\ corrupt = {}
    /\ output_dir \in {NoOutputDir, StaleOutputDir(Vid01)}
    /\ pc = [w \in Procs |-> "start"]
    /\ main_pc = [w \in Procs |-> "start"]
    /\ frame_files = [w \in Procs |-> <<>>]
    /\ i = [w \in Procs |-> 1]
    /\ segments = [w \in Procs |-> <<>>]
    /\ current_segment = [w \in Procs |-> NoSegment]
    /\ prev_img = [w \in Procs |-> NoImage]
    /\ filtered_segments = [w \in Procs |-> <<>>]
    /\ loaded = [w \in Procs |-> <<>>]
    /\ exception = [w \in Procs |-> "none"]

\* process w: mkdir of the output directory, then the call of segment_frames
ParCallSegmentFrames(w) ==
    /\ main_pc[w] = "start"
    /\ ArgsParse(argv[w])
    /\ dir_exists
    /\ output_dir' = MkDir(output_dir)
    /\ main_pc' = [main_pc EXCEPT ![w] = "call"]
    /\ UNCHANGED <<params, pc, frame_files, i, segments, current_segment, prev_img,
                   filtered_segments, argv, dir_exists, corrupt, loaded, exception>>

\* process w: the frames are found and sorted
ParListFrames(w) ==
    /\ main_pc[w] = "call"
    /\ pc[w] = "start"
    /\ \E listing \in ListDir(dir) :
          LET found == ListFrameFiles(listing, video_id[w])
          IN  FramesFound(found) /\ frame_files' = [frame_files EXCEPT ![w] = found]
    /\ pc' = [pc EXCEPT ![w] = "loop"]
    /\ UNCHANGED <<params, i, segments, current_segment, prev_img,
                   filtered_segments, env, loaded>>

\* process w: "if not frame_files: raise ValueError"
ParNoFramesFound(w) ==
    /\ main_pc[w] = "call"
    /\ pc[w] = "start"
    /\ \E listing \in ListDir(dir) : ~FramesFound(ListFrameFiles(listing, video_id[w]))
    /\ pc' = [pc EXCEPT ![w] = "raised"]
    /\ exception' = [exception EXCEPT ![w] = "ValueError"]
    /\ main_pc' = [main_pc EXCEPT ![w] = "traceback"]
    /\ UNCHANGED <<params, frame_files, i, segments, current_segment, prev_img,
                   filtered_segments, argv, dir_exists, corrupt, loaded, output_dir>>

ParLoopState(w) == [segments |-> segments[w], current_segment |-> current_segment[w],
                    prev_img |-> prev_img[w]]

\* process w: one iteration of the for loop
ParIteration(w) ==
    /\ pc[w] = "loop"
    /\ i[w] <= Len(frame_files[w])
    /\ LET st == ProcessFrame(ParLoopState(w), dir, video_id[w], frame_files[w][i[w]],
                              diff_threshold[w], blank_threshold[w])
       IN  /\ segments' = [segments EXCEPT ![w] = st.segments]
           /\ current_segment' = [current_segment EXCEPT ![w] = st.current_segment]
           /\ prev_img' = [prev_img EXCEPT ![w] = st.prev_img]
    /\ i' = [i EXCEPT ![w] = @ + 1]
    /\ loaded' = [loaded EXCEPT ![w] = Append(@, frame_files[w][i[w]][2])]
    /\ UNCHANGED <<params, pc, frame_files, filtered_segments, env>>

\* process w: after the loop, the open segment is appended
ParLastSegment(w) ==
    /\ pc[w] = "loop"
    /\ i[w] > Len(frame_files[w])
    /\ segments' = [segments EXCEPT ![w] = AppendLast(ParLoopState(w))]
    /\ pc' = [pc EXCEPT ![w] = "filter"]
    /\ UNCHANGED <<params, frame_files, i, current_segment, prev_img,
                   filtered_segments, env, loaded>>

\* process w: the duration filter and the return
ParFilter(w) ==
    /\ pc[w] = "filter"
    /\ filtered_segments' =
           [filtered_segments EXCEPT
               ![w] = FilterSegments(segments[w], min_segment_duration[w])]
    /\ pc' = [pc EXCEPT ![w] = "returned"]
    /\ UNCHANGED <<params, frame_files, i, segments, current_segment, prev_img,
                   env, loaded>>

\* process w: open(output_path, 'w')
ParOpenOutput(w) ==
    /\ main_pc[w] = "call"
    /\ pc[w] = "returned"
    /\ output_dir' = [output_dir EXCEPT
                         !.files = (OutputFileName(video_id[w]) :> OpenedFile) @@ @]
    /\ main_pc' = [main_pc EXCEPT ![w] = "write"]
    /\ UNCHANGED <<params, pc, frame_files, i, segments, current_segment, prev_img,
                   filtered_segments, argv, dir_exists, corrupt, loaded, exception>>

\* process w: json.dump(segments, f, ...) and the end of main
ParWriteJson(w) ==
    /\ main_pc[w] = "write"
    /\ output_dir' = [output_dir EXCEPT
                         !.files = (OutputFileName(video_id[w])
                                        :> JsonDump(filtered_segments[w])) @@ @]
    /\ main_pc' = [main_pc EXCEPT ![w] = "done"]
    /\ UNCHANGED <<params, pc, frame_files, i, segments, current_segment, prev_img,
                   filtered_segments, argv, dir_exists, corrupt, loaded, exception>>

NextPar ==
    \/ \E w \in Procs : ParCallSegmentFrames(w)
    \/ \E w \in Procs : ParListFrames(w)
    \/ \E w \in Procs : ParNoFramesFound(w)
    \/ \E w \in Procs : ParIteration(w)
    \/ \E w \in Procs : ParLastSegment(w)
    \/ \E w \in Procs : ParFilter(w)
    \/ \E w \in Procs : ParOpenOutput(w)
    \/ \E w \in Procs : ParWriteJson(w)

SpecPar == InitPar /\ [][NextPar]_vars

(***************************************************************************)
(* Notions the properties share.                                           *)
(***************************************************************************)
\* segment_frames has just returned filtered_segments to main
Returned == pc = "returned" /\ main_pc = "call"

\* the forward pass is over: segments holds the raw segment list
RawBuilt == pc = "filter" \/ Returned

FrameNum(k) == frame_files[k][1]

\* frame k decodes and is classified blank
FrameIsBlank(k) ==
    /\ frame_files[k][2] \notin corrupt
    /\ is_blank_frame(load_image_as_array(dir, frame_files[k][2]), blank_threshold)

\* frame k decodes and is classified content
FrameIsContent(k) ==
    /\ frame_files[k][2] \notin corrupt
    /\ ~is_blank_frame(load_image_as_array(dir, frame_files[k][2]), blank_threshold)

ContentFrames == {k \in 1..Len(frame_files) : FrameIsContent(k)}

\* the positions of the segments of segs whose frame range holds frame number n
Covering(segs, n) ==
    {s \in 1..Len(segs) : segs[s].start_frame <= n /\ n <= segs[s].end_frame}

DefaultThresholds ==
    diff_threshold = DefaultDiffThreshold /\ blank_threshold = DefaultBlankThreshold

(***************************************************************************)
(* C1: when the forward pass is over, every non-blank frame lies in        *)
(* exactly one raw segment and every blank frame in none, the frame counts *)
(* of the raw segments add up to the number of non-blank frames, and a     *)
(* segment still open after the last frame is the last one appended.       *)
(***************************************************************************)
C1_RawSegmentsCoverContentFrames ==
    RawBuilt =>
        /\ \A k \in 1..Len(frame_files) :
              Cardinality(Covering(segments, FrameNum(k)))
                  = IF FrameIsBlank(k) THEN 0 ELSE 1
        /\ SumSeq([s \in 1..Len(segments) |-> segments[s].frame_count])
               = Cardinality(ContentFrames)
        /\ current_segment # NoSegment =>
               /\ Len(segments) > 0
               /\ segments[Len(segments)] = current_segment[1]

C1_Witness ==
    /\ pc = "filter"
    /\ Len(segments) >= 2
    /\ current_segment # NoSegment
    /\ \E k \in 1..Len(frame_files) : FrameIsBlank(k)
    /\ \E s \in 1..Len(segments) : segments[s].frame_count >= 2

(***************************************************************************)
(* C2: in the returned list the start times of adjacent segments strictly  *)
(* increase.                                                               *)
(***************************************************************************)
C2_StartTimesStrictlyIncrease ==
    Returned =>
        \A k \in 1..(Len(filtered_segments) - 1) :
            filtered_segments[k + 1].start_time > filtered_segments[k].start_time

C2_Witness ==
    /\ Returned
    /\ Len(filtered_segments) >= 2
    /\ Len(filtered_segments) < Len(segments)

(***************************************************************************)
(* C3: segments never overlap: in the raw list and in the returned list    *)
(* each segment ends before the next one starts.                           *)
(***************************************************************************)
EndsBeforeNextStarts(segs) ==
    \A k \in 1..(Len(segs) - 1) : segs[k].end_time < segs[k + 1].start_time

C3_SegmentsNeverOverlap ==
    /\ RawBuilt => EndsBeforeNextStarts(segments)
    /\ Returned => EndsBeforeNextStarts(filtered_segments)

C3_Witness ==
    /\ Returned
    /\ Len(filtered_segments) >= 2
    /\ \E k \in 1..(Len(segments) - 1) :
          segments[k].end_time + 1 = segments[k + 1].start_time

(***************************************************************************)
(* C4: a content frame that comes right after a blank frame opens a new    *)
(* segment with start = end = that frame and frame_count 1, whatever its   *)
(* difference to the last content frame before the blank.  With the        *)
(* default thresholds, frames 1..5 of one subtitle, a blank frame 6 and a  *)
(* content frame 7 give the raw segments (start_time 0, end_time 4,        *)
(* frame_count 5) and (segment_id 2, start_time 6).                        *)
(***************************************************************************)
AfterBlank == InLoop /\ i > 1 /\ FrameIsBlank(i - 1) /\ FrameIsContent(i)

OpenedAt(k) ==
    /\ current_segment # NoSegment
    /\ current_segment[1].start_frame = FrameNum(k)
    /\ current_segment[1].end_frame = FrameNum(k)
    /\ current_segment[1].start_time = FrameNum(k) - 1
    /\ current_segment[1].end_time = FrameNum(k) - 1
    /\ current_segment[1].frame_count = 1

BlankBoundaryScene ==
    /\ dir \in {SceneBlankBoundary(ImgA), SceneBlankBoundary(ImgB)}
    /\ video_id = Vid01
    /\ DefaultThresholds

BlankBoundarySceneResult ==
    /\ Len(segments) = 2
    /\ segments[1].start_time = 0
    /\ segments[1].end_time = 4
    /\ segments[1].frame_count = 5
    /\ segments[2].segment_id = 2
    /\ segments[2].start_time = 6

C4_BlankForcesBoundary ==
    [][/\ AfterBlank => \A k \in {i} : OpenedAt(k)'
       /\ (BlankBoundaryScene /\ pc' = "filter") => BlankBoundarySceneResult']_vars

\* the frame after the blank differs by less than diff_threshold from the
\* last content frame before the blank, and still opened a segment
C4_Witness ==
    /\ pc = "loop"
    /\ i > 3
    /\ FrameIsBlank(i - 2)
    /\ ~FrameIsBlank(i - 3)
    /\ ~FrameIsBlank(i - 1)
    /\ FrameDifferenceBelow(load_image_as_array(dir, frame_files[i - 3][2]),
                            load_image_as_array(dir, frame_files[i - 1][2]),
                            diff_threshold)
    /\ current_segment # NoSegment
    /\ current_segment[1].start_frame = FrameNum(i - 1)
    /\ current_segment[1].frame_count = 1

C4_SceneWitness == BlankBoundaryScene /\ pc = "filter" /\ BlankBoundarySceneResult

(***************************************************************************)
(* C5: the returned list is the raw list without the segments whose        *)
(* end_time - start_time + 1 is below min_segment_duration: the kept       *)
(* segments appear unchanged and in the raw order, and a dropped segment   *)
(* is in no returned segment.  With min_segment_duration = 2 a raw segment *)
(* with start_time = end_time = 10 is not returned.                        *)
(***************************************************************************)
LongEnough ==
    {k \in 1..Len(segments) :
        segments[k].end_time - segments[k].start_time + 1 >= min_segment_duration}

C5_FilterIsPurePostPass ==
    Returned =>
        /\ Len(filtered_segments) = Cardinality(LongEnough)
        /\ \A j \in 1..Len(filtered_segments) :
              \E k \in LongEnough :
                  /\ filtered_segments[j] = segments[k]
                  /\ Cardinality({m \in LongEnough : m < k}) = j - 1
        /\ min_segment_duration = 2 =>
              \A k \in 1..Len(segments) :
                  (segments[k].start_time = 10 /\ segments[k].end_time = 10) =>
                      Covering(filtered_segments, segments[k].start_frame) = {}

\* a one-second segment between two longer ones is dropped, not merged
C5_Witness ==
    /\ Returned
    /\ min_segment_duration = 2
    /\ Len(filtered_segments) = 2
    /\ Len(segments) = 3
    /\ segments[2].start_time = 10
    /\ segments[2].end_time = 10
    /\ filtered_segments = <<segments[1], segments[3]>>

(***************************************************************************)
(* C6 as stated: in the returned list the segment at position k has        *)
(* segment_id = k.                                                         *)
(***************************************************************************)
C6_ReturnedIdsArePositions ==
    Returned =>
        \A k \in 1..Len(filtered_segments) : filtered_segments[k].segment_id = k

(***************************************************************************)
(* C6 as amended: in the raw list the segment at position k has            *)
(* segment_id = k; the returned list keeps these ids, so they strictly     *)
(* increase, the segment at position k has segment_id >= k, and            *)
(* segment_id = k at every position when the filter dropped nothing.       *)
(***************************************************************************)
C6_IdsAreRawPositions ==
    /\ RawBuilt => \A k \in 1..Len(segments) : segments[k].segment_id = k
    /\ Returned =>
          /\ \A k \in 1..Len(filtered_segments) :
                filtered_segments[k].segment_id >= k
          /\ \A k \in 1..(Len(filtered_segments) - 1) :
                filtered_segments[k].segment_id < filtered_segments[k + 1].segment_id
          /\ Len(filtered_segments) = Len(segments) =>
                \A k \in 1..Len(filtered_segments) :
                    filtered_segments[k].segment_id = k

C6_Witness ==
    /\ Returned
    /\ Len(segments) >= 2
    /\ Len(filtered_segments) >= 1
    /\ filtered_segments[1].segment_id = 2

(***************************************************************************)
(* C7 as stated: with the frames, blank_threshold and min_segment_duration *)
(* fixed, a larger diff_threshold never gives more returned segments.      *)
(***************************************************************************)
RawWith(dt) == RawSegmentsOf(frame_files, dir, video_id, dt, blank_threshold)

ReturnedWith(dt) ==
    SegmentFramesOf(frame_files, dir, video_id, dt, blank_threshold,
                    min_segment_duration)

LargerDiffThresholds == {dt \in DiffThresholds : dt > diff_threshold}

C7_ReturnedCountMonotone ==
    Returned =>
        \A dt \in LargerDiffThresholds :
            Len(ReturnedWith(dt)) <= Len(filtered_segments)

(***************************************************************************)
(* C7 as amended: a larger diff_threshold never gives more raw segments,   *)
(* and never more returned segments when min_segment_duration <= 1.        *)
(***************************************************************************)
C7_RawCountMonotone ==
    /\ RawBuilt =>
          \A dt \in LargerDiffThresholds : Len(RawWith(dt)) <= Len(segments)
    /\ (Returned /\ min_segment_duration <= 1) =>
          \A dt \in LargerDiffThresholds :
              Len(ReturnedWith(dt)) <= Len(filtered_segments)

C7_Witness ==
    /\ Returned
    /\ min_segment_duration <= 1
    /\ \E dt \in LargerDiffThresholds :
          Len(ReturnedWith(dt)) < Len(filtered_segments)

(***************************************************************************)
(* C8: the returned list is the one a run returns for every order in which *)
(* the directory may be listed, the other arguments being the same.        *)
(***************************************************************************)
\* the frame lists that the listings of the directory give
FrameListsOfListings == {ListFrameFiles(listing, video_id) : listing \in ListDir(dir)}

C8_ListingOrderIrrelevant ==
    Returned =>
        \A frames \in FrameListsOfListings :
            SegmentFramesOf(frames, dir, video_id, diff_threshold,
                            blank_threshold, min_segment_duration)
                = filtered_segments

\* some listing names the frames in another order than the sorted one
C8_Witness ==
    /\ Returned
    /\ Len(filtered_segments) >= 2
    /\ \E listing \in ListDir(dir) : MatchedFrames(listing, video_id) # frame_files

(***************************************************************************)
(* C9: when every frame is blank, no segment is built and none returned.   *)
(***************************************************************************)
C9_AllBlankGivesNoSegments ==
    (Returned /\ ContentFrames = {}) =>
        /\ segments = <<>>
        /\ filtered_segments = <<>>

C9_Witness ==
    /\ Returned
    /\ ContentFrames = {}
    /\ Len(frame_files) >= 2
    /\ min_segment_duration = 0

(***************************************************************************)
(* C10: a non-blank frame whose neighbours in the frame sequence are blank *)
(* lies in exactly one raw segment, which has start_time = end_time and    *)
(* frame_count 1; with min_segment_duration > 1 no returned segment holds  *)
(* the frame.                                                              *)
(***************************************************************************)
Isolated(k) ==
    /\ k \in ContentFrames
    /\ k > 1 => FrameIsBlank(k - 1)
    /\ k < Len(frame_files) => FrameIsBlank(k + 1)

C10_IsolatedFrameIsOneSecondSegment ==
    /\ RawBuilt =>
          \A k \in 1..Len(frame_files) :
              Isolated(k) =>
                  /\ Cardinality(Covering(segments, FrameNum(k))) = 1
                  /\ \A s \in Covering(segments, FrameNum(k)) :
                        /\ segments[s].start_frame = FrameNum(k)
                        /\ segments[s].start_time = segments[s].end_time
                        /\ segments[s].frame_count = 1
    /\ (Returned /\ min_segment_duration > 1) =>
          \A k \in 1..Len(frame_files) :
              Isolated(k) => Covering(filtered_segments, FrameNum(k)) = {}

C10_Witness ==
    /\ Returned
    /\ min_segment_duration > 1
    /\ \E k \in 2..(Len(frame_files) - 1) :
          /\ Isolated(k)
          /\ Covering(segments, FrameNum(k)) # {}
          /\ Covering(filtered_segments, FrameNum(k)) = {}

(***************************************************************************)
(* Notions the properties of main share.                                   *)
(***************************************************************************)
\* no file of this run is in the output directory
NothingWritten ==
    \A f \in DOMAIN output_dir.files : ~output_dir.files[f].from_this_run

\* main has ended without saving
MainFailed == main_pc \in {"usage_error", "exit_1", "traceback"}

(***************************************************************************)
(* C11: when no file of the directory matches the pattern of the video,    *)
(* segment_frames raises its no-frames error (a ValueError) as its first   *)
(* step: no frame is loaded, no list is returned, and main ends without    *)
(* writing a file.                                                         *)
(***************************************************************************)
NoFrameMatches == \A f \in DOMAIN dir : ~PatternMatches(video_id, f)

C11_NoFramesFailsFast ==
    (NoFrameMatches /\ dir_exists /\ ArgsParse(argv)) =>
        /\ loaded = <<>>
        /\ filtered_segments = <<>>
        /\ NothingWritten
        /\ \/ main_pc \in {"start", "call"} /\ pc = "start"
           \/ main_pc = "traceback" /\ pc = "raised" /\ exception = "ValueError"

C11_Witness ==
    /\ NoFrameMatches
    /\ DOMAIN dir # {}
    /\ pc = "raised"
    /\ exception = "ValueError"
    /\ main_pc = "traceback"

(***************************************************************************)
(* C12: a configuration that is not numeric, or whose thresholds lie       *)
(* outside 0..255, or whose minimum duration is negative, makes the run    *)
(* fail before any frame is loaded: no frame is loaded, segment_frames     *)
(* returns no list and no file is written.                                 *)
(***************************************************************************)
PixelRange == 0..255

ConfigValid(args) ==
    /\ ArgsParse(args)
    /\ args.diff_threshold.value \in PixelRange
    /\ args.blank_threshold.value \in PixelRange
    /\ args.min_duration.value >= 0

C12_InvalidConfigRejected ==
    ~ConfigValid(argv) =>
        /\ loaded = <<>>
        /\ pc \notin {"filter", "returned"}
        /\ NothingWritten

(***************************************************************************)
(* C13: the output file is opened and written only after segment_frames    *)
(* has processed every frame, filtered and returned, and only the file     *)
(* {video_id}_segments.json changes; a run of main that fails (usage       *)
(* error, missing directory, no frames, load error) holds no file of this  *)
(* run, and the files of the output directory are as they were.            *)
(***************************************************************************)
PassComplete ==
    /\ pc = "returned"
    /\ i = Len(frame_files) + 1
    /\ loaded = [k \in 1..Len(frame_files) |-> frame_files[k][2]]

OnlyOwnFileChanges ==
    /\ DOMAIN output_dir'.files = DOMAIN output_dir.files \cup {OutputFileName(video_id)}
    /\ \A f \in DOMAIN output_dir.files :
          f # OutputFileName(video_id) => output_dir'.files[f] = output_dir.files[f]

C13_WriteOnlyAfterPass ==
    /\ [](MainFailed => /\ NothingWritten
                        /\ pc # "returned")
    /\ [](~NothingWritten => PassComplete /\ main_pc \in {"write", "done"})
    /\ [][output_dir'.files # output_dir.files =>
              /\ PassComplete
              /\ main_pc \in {"call", "write"}
              /\ OnlyOwnFileChanges
              /\ UNCHANGED <<pc, filtered_segments>>]_vars

C13_Witness ==
    /\ main_pc = "done"
    /\ filtered_segments # <<>>
    /\ OutputFileName(video_id) \in DOMAIN output_dir.files
    /\ output_dir.files[OutputFileName(video_id)] = JsonDump(filtered_segments)

(***************************************************************************)
(* C14: an iteration on a file that does not decode ends segment_frames    *)
(* and main with the error at that frame: the index does not move on, the  *)
(* failing file is the last one loaded, no step follows, nothing is        *)
(* returned (not even the segments closed before the frame) and nothing    *)
(* is written.                                                             *)
(***************************************************************************)
LoadAborted == pc = "raised" /\ exception = "OSError"

FilesUpTo(k) == [j \in 1..k |-> frame_files[j][2]]

C14_LoadErrorAborts ==
    /\ [][(pc = "loop" /\ i <= Len(frame_files) /\ frame_files[i][2] \in corrupt) =>
              /\ LoadAborted'
              /\ i' = i
              /\ UNCHANGED <<segments, current_segment, prev_img, filtered_segments,
                             output_dir>>]_vars
    /\ [](LoadAborted =>
              /\ main_pc = "traceback"
              /\ frame_files[i][2] \in corrupt
              /\ loaded = FilesUpTo(i)
              /\ filtered_segments = <<>>
              /\ NothingWritten)
    /\ [][~LoadAborted]_vars

C14_Witness ==
    /\ LoadAborted
    /\ segments # <<>>
    /\ i < Len(frame_files)

(***************************************************************************)
(* C15: two invocations with different video identifiers that run at the   *)
(* same time over one frames directory do not affect each other.  In every *)
(* interleaving each process lists and loads only the frames named for its *)
(* own video, a step of one process changes no local of the other and no   *)
(* file but its own {video_id}_segments.json, and each process returns and *)
(* writes the list it returns when it runs alone.                          *)
(***************************************************************************)
\* the names of the directory that belong to the video of process w
OwnFrames(w) ==
    {f \in DOMAIN dir : /\ Len(f) = Len(video_id[w]) + 1 + FrameNumDigits + Len(JpgSuffix)
                        /\ SubSeq(f, 1, Len(video_id[w]) + 1) = video_id[w] \o <<"_">>
                        /\ PatternMatches(video_id[w], f)}

\* what segment_frames returns for the video of process w with no other
\* process running
AloneResult(w) ==
    SegmentFramesOf(ListFrameFiles(Ascending(DOMAIN dir), video_id[w]), dir,
                    video_id[w], diff_threshold[w], blank_threshold[w],
                    min_segment_duration[w])

\* the variables process w owns
LocalsOf(w) ==
    <<video_id[w], diff_threshold[w], blank_threshold[w], min_segment_duration[w],
      pc[w], frame_files[w], i[w], segments[w], current_segment[w], prev_img[w],
      filtered_segments[w], main_pc[w], argv[w], loaded[w], exception[w]>>

\* the file of the video of process w in the output directory, if any
OutputOf(w) ==
    IF OutputFileName(video_id[w]) \in DOMAIN output_dir.files
    THEN <<output_dir.files[OutputFileName(video_id[w])]>>
    ELSE <<>>

IndependentOfOther(w) ==
    /\ \A k \in 1..Len(loaded[w]) : loaded[w][k] \in OwnFrames(w)
    /\ pc[w] \in {"loop", "filter", "returned"} =>
          {frame_files[w][k][2] : k \in 1..Len(frame_files[w])} = OwnFrames(w)
    /\ pc[w] = "raised" => OwnFrames(w) = {}
    /\ pc[w] = "returned" => filtered_segments[w] = AloneResult(w)
    /\ main_pc[w] = "done" => OutputOf(w) = <<JsonDump(AloneResult(w))>>
    /\ main_pc[w] = "write" => OutputOf(w) = <<OpenedFile>>
    /\ main_pc[w] \notin {"write", "done"} =>
          \A f \in 1..Len(OutputOf(w)) : ~OutputOf(w)[f].from_this_run

StepOfOne(w) ==
    \A v \in Procs \ {w} :
        /\ LocalsOf(v)' = LocalsOf(v)
        /\ OutputOf(v)' = OutputOf(v)

C15_ParallelRunsAreIndependent ==
    /\ [](\A w \in Procs : IndependentOfOther(w))
    /\ [][\E w \in Procs : StepOfOne(w)]_vars
    /\ [][UNCHANGED <<dir, dir_exists, corrupt>>]_vars

C15_Witness ==
    /\ \A w \in Procs : main_pc[w] = "done" /\ filtered_segments[w] # <<>>
    /\ OutputOf(1) = <<JsonDump(filtered_segments[1])>>
    /\ OutputOf(2) = <<JsonDump(filtered_segments[2])>>
    /\ Len(filtered_segments[1]) # Len(filtered_segments[2])

\* both processes are in the middle of their loops at the same time
C15_InterleavedWitness ==
    /\ \A w \in Procs : pc[w] = "loop" /\ i[w] = 2 /\ Len(frame_files[w]) = 2
    /\ current_segment[1] # NoSegment
    /\ current_segment[2] # NoSegment

(***************************************************************************)
(* Notions the properties of single segments share.                        *)
(***************************************************************************)
\* the segments that exist in a state: closed, still open, and returned
AllSegments ==
    {segments[s] : s \in 1..Len(segments)}
    \cup {current_segment[c] : c \in 1..Len(current_segment)}
    \cup {filtered_segments[s] : s \in 1..Len(filtered_segments)}

\* the frame numbers of the video have no gap
Contiguous ==
    \A k \in 1..(Len(frame_files) - 1) : FrameNum(k + 1) = FrameNum(k) + 1

(***************************************************************************)
(* C16: when the frame numbers of the video have no gap, every segment,    *)
(* open, closed or returned, has                                           *)
(* frame_count = end_frame - start_frame + 1, in every state of the pass.  *)
(***************************************************************************)
C16_FrameCountIsFrameSpan ==
    Contiguous =>
        \A seg \in AllSegments : seg.frame_count = seg.end_frame - seg.start_frame + 1

C16_Witness ==
    /\ Contiguous
    /\ Returned
    /\ \E s \in 1..Len(filtered_segments) : filtered_segments[s].frame_count >= 3
    /\ \E s \in 1..Len(filtered_segments) : filtered_segments[s].frame_count = 1
    /\ \E k \in 1..Len(frame_files) : FrameIsBlank(k)

(***************************************************************************)
(* C17: every segment, open, closed or returned, has                       *)
(* end_time >= start_time, whether or not frame numbers are missing.       *)
(***************************************************************************)
C17_EndNotBeforeStart ==
    \A seg \in AllSegments : seg.end_time >= seg.start_time

C17_Witness ==
    /\ ~Contiguous
    /\ Returned
    /\ \E s \in 1..Len(filtered_segments) :
          /\ filtered_segments[s].end_time > filtered_segments[s].start_time
          /\ filtered_segments[s].frame_count
                 < filtered_segments[s].end_frame - filtered_segments[s].start_frame + 1
    /\ \E s \in 1..Len(filtered_segments) :
          filtered_segments[s].end_time = filtered_segments[s].start_time

(***************************************************************************)
(* C18: every segment has start_time = start_frame - 1 and                 *)
(* end_time = end_frame - 1, when it opens, after each extension, in the   *)
(* raw list and in the returned list.                                      *)
(***************************************************************************)
C18_TimeIsFrameMinusOne ==
    \A seg \in AllSegments :
        /\ seg.start_time = seg.start_frame - 1
        /\ seg.end_time = seg.end_frame - 1

C18_Witness ==
    /\ pc = "loop"
    /\ current_segment # NoSegment
    /\ current_segment[1].frame_count >= 2
    /\ current_segment[1].start_frame > 1
    /\ segments # <<>>

(***************************************************************************)
(* C19: whenever a segment is appended to the raw list (on a blank frame,  *)
(* on a frame with a different subtitle, or after the last frame), it is   *)
(* the open segment, the earlier entries stay, and its segment_id is the   *)
(* number of segments already in the list plus one; the raw ids strictly   *)
(* increase along the list and so do the start times.                      *)
(***************************************************************************)
AppendsOpenSegment ==
    /\ current_segment # NoSegment
    /\ segments' = Append(segments, current_segment[1])
    /\ segments'[Len(segments')].segment_id = Len(segments) + 1

C19_IdIsCountPlusOneAtAppend ==
    /\ [][segments' # segments => AppendsOpenSegment]_vars
    /\ [](\A s \in 1..Len(segments), t \in 1..Len(segments) :
             s < t => /\ segments[s].segment_id < segments[t].segment_id
                      /\ segments[s].start_time < segments[t].start_time)

C19_Witness ==
    /\ pc = "filter"
    /\ Len(segments) >= 3
    /\ segments[Len(segments)].segment_id = Len(segments)
    /\ \E k \in 1..Len(frame_files) : FrameIsBlank(k)
    /\ FrameIsContent(Len(frame_files))
    /\ \E k \in 2..Len(frame_files) :
          /\ FrameIsContent(k - 1)
          /\ \E s \in 1..Len(segments) : segments[s].start_frame = FrameNum(k)

(***************************************************************************)
(* C20: in an iteration on a content frame with a segment open, a mean     *)
(* absolute difference to the previous frame equal to diff_threshold       *)
(* closes the open segment (it is appended) and opens a new one at this    *)
(* frame; the open segment is extended only when the difference is         *)
(* strictly below diff_threshold.                                          *)
(***************************************************************************)
\* |prev - curr| summed, and diff_threshold times the number of values
DiffSumAt(k) == AbsDiffSum(prev_img[1], load_image_as_array(dir, frame_files[k][2]))

ThresholdSumAt(k) ==
    LET img == load_image_as_array(dir, frame_files[k][2])
    IN  diff_threshold * Len(img) * NumChannels(img)

\* an iteration on a content frame is about to run with a segment open
OpenAtContent ==
    /\ pc = "loop"
    /\ i <= Len(frame_files)
    /\ FrameIsContent(i)
    /\ current_segment # NoSegment
    /\ prev_img # NoImage

ClosesAndOpensAt(k) ==
    /\ segments' = Append(segments, current_segment[1])
    /\ current_segment' # NoSegment
    /\ current_segment'[1].start_frame = FrameNum(k)
    /\ current_segment'[1].frame_count = 1
    /\ current_segment'[1].segment_id = current_segment[1].segment_id + 1

ExtendsAt(k) ==
    /\ segments' = segments
    /\ current_segment' # NoSegment
    /\ current_segment'[1].start_frame = current_segment[1].start_frame
    /\ current_segment'[1].end_frame = FrameNum(k)
    /\ current_segment'[1].frame_count = current_segment[1].frame_count + 1

C20_SameSubtitleTestIsStrict ==
    [][OpenAtContent =>
          /\ DiffSumAt(i) = ThresholdSumAt(i) => ClosesAndOpensAt(i)
          /\ ExtendsAt(i) => DiffSumAt(i) < ThresholdSumAt(i)
          /\ DiffSumAt(i) < ThresholdSumAt(i) => ExtendsAt(i)]_vars

C20_Witness ==
    /\ pc = "loop"
    /\ i > 2
    /\ i <= Len(frame_files) + 1
    /\ FrameIsContent(i - 2)
    /\ FrameIsContent(i - 1)
    /\ AbsDiffSum(load_image_as_array(dir, frame_files[i - 2][2]),
                  load_image_as_array(dir, frame_files[i - 1][2]))
           = diff_threshold * 2
    /\ segments # <<>>
    /\ segments[Len(segments)].end_frame = FrameNum(i - 2)
    /\ current_segment # NoSegment
    /\ current_segment[1].start_frame = FrameNum(i - 1)

(***************************************************************************)
(* C21: an iteration that extends the open segment sets end_time and       *)
(* end_frame to the frame and adds one to frame_count; segment_id,         *)
(* start_time, start_frame, representative_frame and video_id stay, and    *)
(* the raw list is unchanged.  So the representative_frame of every        *)
(* segment is the file name of the frame numbered start_frame.             *)
(***************************************************************************)
\* the file name of the frame with number n in frame_files
FileOfFrame(n) ==
    {frame_files[k][2] : k \in {j \in 1..Len(frame_files) : FrameNum(j) = n}}

ExtendsOnly(k) ==
    /\ segments' = segments
    /\ current_segment' =
           <<[current_segment[1] EXCEPT !.end_time = FrameNum(k) - 1,
                                        !.end_frame = FrameNum(k),
                                        !.frame_count = @ + 1]>>

C21_ExtensionKeepsStart ==
    /\ [][(OpenAtContent /\ DiffSumAt(i) < ThresholdSumAt(i)) => ExtendsOnly(i)]_vars
    /\ [](\A seg \in AllSegments : FileOfFrame(seg.start_frame) = {seg.representative_frame})

C21_Witness ==
    /\ pc = "loop"
    /\ i > 3
    /\ current_segment # NoSegment
    /\ current_segment[1].frame_count = 3
    /\ current_segment[1].start_frame = FrameNum(i - 3)
    /\ current_segment[1].end_frame = FrameNum(i - 1)
    /\ current_segment[1].representative_frame = frame_files[i - 3][2]

(***************************************************************************)
(* C22: the raw segments are maximal runs.  Inside a raw segment every     *)
(* frame after the first differs from the frame before it by less than     *)
(* diff_threshold; and where the first frame of a raw segment comes right  *)
(* after the last frame of the raw segment before it in the list of        *)
(* frames, the two frames differ by diff_threshold or more.                *)
(***************************************************************************)
\* the position in frame_files of the frame with number n
PosOf(n) == CHOOSE k \in 1..Len(frame_files) : FrameNum(k) = n

FrameImg(k) == load_image_as_array(dir, frame_files[k][2])

\* the mean difference of frames k - 1 and k is below diff_threshold
CloseToPrevious(k) ==
    AbsDiffSum(FrameImg(k - 1), FrameImg(k))
        < diff_threshold * Len(FrameImg(k)) * NumChannels(FrameImg(k))

C22_RawSegmentsAreMaximalRuns ==
    RawBuilt =>
        /\ \A s \in 1..Len(segments) :
              \A k \in (PosOf(segments[s].start_frame) + 1)..PosOf(segments[s].end_frame) :
                  CloseToPrevious(k)
        /\ \A s \in 1..(Len(segments) - 1) :
              PosOf(segments[s + 1].start_frame) = PosOf(segments[s].end_frame) + 1
                  => ~CloseToPrevious(PosOf(segments[s + 1].start_frame))

C22_Witness ==
    /\ pc = "filter"
    /\ \E s \in 1..(Len(segments) - 1) :
          /\ PosOf(segments[s + 1].start_frame) = PosOf(segments[s].end_frame) + 1
          /\ segments[s].frame_count >= 2
          /\ ~CloseToPrevious(PosOf(segments[s + 1].start_frame))

(***************************************************************************)
(* C23: a segment that has been appended to the raw list is never changed  *)
(* again.  Each dictionary is created once, with its own segment_id, so    *)
(* the variable current_segment refers to a dictionary of the list exactly *)
(* when the list holds a segment with the id of current_segment.           *)
(***************************************************************************)
\* current_segment refers to a dictionary that is in the raw list
OpenSegmentInOutput ==
    /\ current_segment # NoSegment
    /\ \E s \in 1..Len(segments) :
          segments[s].segment_id = current_segment[1].segment_id

\* C23 as stated: the open-segment variable never aliases a segment that is
\* already in the output
C23_OpenSegmentNeverInOutput == ~OpenSegmentInOutput

\* C23, amended: the raw list only grows at its end; while the loop runs,
\* current_segment never refers to a segment of the list; after the last
\* frame it still refers to the segment appended last, and from then on
\* neither the variable nor the list changes.
C23_AppendedSegmentsAreFinal ==
    /\ [][/\ Len(segments') >= Len(segments)
          /\ SubSeq(segments', 1, Len(segments)) = segments]_vars
    /\ [](pc = "loop" => ~OpenSegmentInOutput)
    /\ [][pc # "loop" => UNCHANGED <<segments, current_segment>>]_vars
    /\ [](OpenSegmentInOutput => current_segment[1] = segments[Len(segments)])

C23_Witness ==
    /\ pc = "returned"
    /\ Len(segments) >= 2
    /\ OpenSegmentInOutput
    /\ current_segment[1].frame_count >= 2
    /\ current_segment[1] = segments[Len(segments)]

(***************************************************************************)
(* C24: a frame is compared with the frame right before it, not with the   *)
(* first frame of the segment.  A run of content frames in which each      *)
(* frame differs from the one before it by less than diff_threshold lies   *)
(* in one raw segment, whatever the difference between its first and its   *)
(* last frame.                                                             *)
(***************************************************************************)
\* frames a..b are content and each is close to the one before it
GradualRun(a, b) ==
    /\ a < b
    /\ \A k \in a..b : FrameIsContent(k)
    /\ \A k \in (a + 1)..b : CloseToPrevious(k)

\* the first and the last frame of the run differ by diff_threshold or more
EndsFarApart(a, b) ==
    AbsDiffSum(FrameImg(a), FrameImg(b))
        >= diff_threshold * Len(FrameImg(a)) * NumChannels(FrameImg(a))

InOneSegment(a, b) ==
    \E s \in 1..Len(segments) :
        /\ segments[s].start_frame <= FrameNum(a)
        /\ FrameNum(b) <= segments[s].end_frame

C24_ComparedWithPreviousFrame ==
    RawBuilt =>
        \A a \in 1..Len(frame_files), b \in 1..Len(frame_files) :
            GradualRun(a, b) => InOneSegment(a, b)

C24_Witness ==
    /\ pc = "filter"
    /\ \E a \in 1..Len(frame_files), b \in 1..Len(frame_files) :
          /\ GradualRun(a, b)
          /\ EndsFarApart(a, b)
          /\ \E s \in 1..Len(segments) :
                /\ segments[s].start_frame = FrameNum(a)
                /\ segments[s].end_frame = FrameNum(b)
                /\ segments[s].frame_count = b - a + 1

(***************************************************************************)
(* C25: with min_segment_duration <= 1 the duration filter drops nothing:  *)
(* the list segment_frames returns is the raw list.                        *)
(***************************************************************************)
C25_FilterKeepsAllAtMostOne ==
    (Returned /\ min_segment_duration <= 1) => filtered_segments = segments

C25_Witness ==
    /\ Returned
    /\ min_segment_duration = 1
    /\ Len(segments) >= 2
    /\ \E s \in 1..Len(segments) : segments[s].end_time = segments[s].start_time
    /\ filtered_segments = segments

(***************************************************************************)
(* C26: with or without gaps in the frame numbers, the frame_count of a    *)
(* segment is the number of frames of the input whose number lies in       *)
(* start_frame..end_frame, all of them content frames.  So frame_count is  *)
(* at most end_frame - start_frame + 1, and smaller exactly when a number  *)
(* in that range is missing.  A missing number alone opens no segment:     *)
(* two content frames next to each other in the list that differ by less   *)
(* than diff_threshold lie in one raw segment whatever their numbers.      *)
(***************************************************************************)
\* the positions of the frames with a number in the frame range of seg
FramesWithin(seg) ==
    {k \in 1..Len(frame_files) :
        seg.start_frame <= FrameNum(k) /\ FrameNum(k) <= seg.end_frame}

\* the numbers in the frame range of seg that no frame of the input has
MissingWithin(seg) ==
    {n \in seg.start_frame..seg.end_frame :
        \A k \in 1..Len(frame_files) : FrameNum(k) # n}

\* frame k follows frame k - 1 in the list with numbers missing in between
GapBefore(k) == k > 1 /\ FrameNum(k) > FrameNum(k - 1) + 1

C26_FrameCountIsFramesAccumulated ==
    /\ \A seg \in AllSegments :
          /\ seg.frame_count = Cardinality(FramesWithin(seg))
          /\ \A k \in FramesWithin(seg) : FrameIsContent(k)
          /\ seg.frame_count <= seg.end_frame - seg.start_frame + 1
          /\ seg.frame_count < seg.end_frame - seg.start_frame + 1
                 <=> MissingWithin(seg) # {}
    /\ RawBuilt =>
          \A k \in 2..Len(frame_files) :
              (GapBefore(k) /\ GradualRun(k - 1, k)) => InOneSegment(k - 1, k)

C26_Witness ==
    /\ pc = "filter"
    /\ \E s \in 1..Len(segments) :
          /\ MissingWithin(segments[s]) # {}
          /\ segments[s].frame_count >= 2
          /\ segments[s].frame_count < segments[s].end_frame - segments[s].start_frame + 1
          /\ \E k \in FramesWithin(segments[s]) : GapBefore(k) /\ GradualRun(k - 1, k)
    /\ Len(segments) >= 2

====
